---- MODULE Spec2Model ----
(***************************************************************************)
(* EvolvingRobby (src/src/main.cpp): a genetic algorithm that evolves a    *)
(* 243-entry lookup-table policy for a can-collecting robot on a grid.     *)
(*                                                                         *)
(* Four specifications share the variables below:                          *)
(*   SpecCode  - Input(int) and Input::operator int, the sensor code.      *)
(*   SpecSim   - one World, direct tryPickCan and getState calls and one   *)
(*               simulate() episode with an arbitrary genome and budget.   *)
(*   SpecGenome- one RobotGenome, crossovers and mutate calls on it.       *)
(*   Spec      - main(): initial population, breedNextGeneration and the   *)
(*               evaluation loop, generation after generation.             *)
(* The enum values are the integers the C++ enums have.  Floats hold only  *)
(* small integers or a quotient of two of them; a quotient is kept as the  *)
(* record [num, den] and compared by cross-multiplication.                 *)
(***************************************************************************)
EXTENDS Integers, Sequences, FiniteSets

VARIABLES
  pc,            \* position of the running program
  code,          \* SpecCode: the int at hand
  input,         \* SpecCode: the Input object at hand
  origin,        \* SpecCode: the value the conversion chain started from
  hasCan,        \* World::hasCan[y][x]
  canCount,      \* World::canCount
  robotGenome,   \* simulate: the genome argument (its rule table)
  MAX_STEPS,     \* simulate: the MAX_STEPS argument
  rx, ry,        \* simulate: the robot's position
  score,         \* simulate: the accumulated reward
  s,             \* simulate: the loop counter
  action,        \* simulate: the resolved action of the last iteration
  startCount,    \* history: canCount when simulate was called
  zeroAt,        \* history: the value of s when canCount was first seen at 0, or -1
  lastPick,      \* history: the last tryPickCan call, [x, y, ret], or <<>>
  prevPick,      \* history: <<ret>> of the tryPickCan call right before the
                 \* last, if both came from outside simulate and were on the
                 \* same coordinate, or <<>>
  lastState,     \* history: the last getState call from outside simulate,
                 \* [x, y, ret], or <<>>
  robots,        \* main: the population
  scores,        \* main: the fitness of each member
  nextGeneration,\* breedNextGeneration: the children so far
  gen,           \* main: the generation counter
  i,             \* main: the evaluation loop counter
  maxPoints,     \* main: canCount * PICK_SUCCESS_PTS of the fresh world
  child,         \* SpecGenome: the genome at hand
  childParentA,  \* SpecGenome: parentA of the crossover that made child, or <<>>
  childParentB,  \* SpecGenome: parentB of that crossover, or <<>>
  mutateCount,   \* SpecGenome: the geneCount of the last mutate call on child
  mutatedIndices,\* history: the values of mutatedIndex in that call
  episodes       \* history: the episodes simulate has returned from since the
                 \* last breeding: the genome, whether the reward was positive,
                 \* the reward if it was, and the cans the world began with

vars == <<pc, code, input, origin, hasCan, canCount, robotGenome, MAX_STEPS,
          rx, ry, score, s, action, startCount, zeroAt, lastPick, prevPick,
          lastState, robots, scores,
          nextGeneration, gen, i, maxPoints, child, childParentA,
          childParentB, mutateCount, mutatedIndices, episodes>>

codeVars == <<code, input, origin>>
genomeVars == <<child, childParentA, childParentB, mutateCount, mutatedIndices>>
worldVars == <<hasCan, canCount>>
simVars == <<robotGenome, MAX_STEPS, rx, ry, score, s, action, startCount, zeroAt,
            lastPick, prevPick, lastState>>
mainVars == <<robots, scores, nextGeneration, gen, i, maxPoints, episodes>>

----------------------------------------------------------------------------
(* Program constants *)

PICK_SUCCESS_PTS == 10
PICK_FAIL_PTS == -1
WALL_HIT_PTS == -5

\* Input::State
EMPTY == 0
WALL == 1
CAN == 2
STATE_COUNT == 3
INPUT_LENGTH == 5
COMBINATIONS == 243

\* RobotGenome::Action
STAY_PUT == 0
TRY_PICK == 1
MOVE_RANDOM == 2
MOVE_NORTH == 3
MOVE_EAST == 4
MOVE_SOUTH == 5
MOVE_WEST == 6
ACTION_COUNT == 7
GENOME_LENGTH == COMBINATIONS
MoveAction == <<MOVE_NORTH, MOVE_EAST, MOVE_SOUTH, MOVE_WEST>>
mutationCount == 1

----------------------------------------------------------------------------
(* Bounds of the model *)

\* World::WIDTH and World::HEIGHT are 11 in the source; the grid is scaled down.
WIDTH == 3
HEIGHT == 3
\* the worlds World(fill) comes to in SpecSim hold at most MaxCans cans
MaxCans == 1
\* simulate is called with MAX_STEPS in 0..MaxSteps in SpecSim
MaxSteps == 3
\* the budget of the episode of an all-STAY_PUT genome in SpecSim
ScenarioSteps == 5
\* getState is called on coordinates up to StateMargin cells off the grid
StateMargin == 1
\* main's N is 10000 in the source
N == 2
\* main's generation loop runs to 1e6 in the source
MaxGen == 2

----------------------------------------------------------------------------
(* Input: the sensor reading and its integer code *)

States == 0 .. (STATE_COUNT - 1)
Inputs == [0 .. (INPUT_LENGTH - 1) -> States]

\* Input(State current, State north, State east, State south, State west)
InputOf(current, north, east, south, west) ==
  [j \in 0 .. (INPUT_LENGTH - 1) |->
     CASE j = 0 -> current [] j = 1 -> north [] j = 2 -> east
       [] j = 3 -> south [] OTHER -> west]

\* the loop of Input(int): state[LENGTH - (1 + i)] = code % COUNT; code /= COUNT
RECURSIVE InputFromCodeLoop(_, _, _)
InputFromCodeLoop(c, k, state) ==
  IF k < INPUT_LENGTH
    THEN InputFromCodeLoop(c \div STATE_COUNT, k + 1,
           [state EXCEPT ![INPUT_LENGTH - (1 + k)] = c % STATE_COUNT])
    ELSE state

\* Input(int) writing the digits in the order it finds them: state[i] = code % COUNT
RECURSIVE InputFromCodeForwardLoop(_, _, _)
InputFromCodeForwardLoop(c, k, state) ==
  IF k < INPUT_LENGTH
    THEN InputFromCodeForwardLoop(c \div STATE_COUNT, k + 1,
                                  [state EXCEPT ![k] = c % STATE_COUNT])
    ELSE state

InputFromCodeForward(c) ==
  InputFromCodeForwardLoop(c, 0, [j \in 0 .. (INPUT_LENGTH - 1) |-> EMPTY])

\* Input(int code); the loop writes every element of the array
InputFromCode(c) ==
  InputFromCodeLoop(c, 0, [j \in 0 .. (INPUT_LENGTH - 1) |-> EMPTY])

\* the loop of operator int(): code *= COUNT; code += state[i]
RECURSIVE InputToIntLoop(_, _, _)
InputToIntLoop(state, k, c) ==
  IF k < INPUT_LENGTH
    THEN InputToIntLoop(state, k + 1, c * STATE_COUNT + state[k])
    ELSE c

\* Input::operator int()
InputToInt(state) == InputToIntLoop(state, 0, 0)

----------------------------------------------------------------------------
(* World *)

Coords == (0 .. (WIDTH - 1)) \X (0 .. (HEIGHT - 1))

\* isCoordinateValid that takes x = WIDTH and y = HEIGHT for valid
isCoordinateValidInclusive(x, y) ==
  (0 <= x /\ x <= WIDTH) /\ (0 <= y /\ y <= HEIGHT)

\* World::isCoordinateValid
isCoordinateValid(x, y) == (0 <= x /\ x < WIDTH) /\ (0 <= y /\ y < HEIGHT)

\* the loops of World(float fill): canCount += hasCan[y][x] ? 1 : 0, row by row
RECURSIVE WorldCountLoop(_, _, _, _)
WorldCountLoop(h, y, x, count) ==
  IF y >= HEIGHT THEN count
  ELSE IF x >= WIDTH THEN WorldCountLoop(h, y + 1, 0, count)
  ELSE WorldCountLoop(h, y, x + 1, count + (IF h[y][x] THEN 1 ELSE 0))

\* World(float fill), given what randomFloat < fill came to in every cell
World(h) == [hasCan |-> h, canCount |-> WorldCountLoop(h, 0, 0, 0)]

\* the outcomes of the draws of World(fill) that fill at most n cells
FillsUpTo(n) ==
  {h \in [0 .. (HEIGHT - 1) -> [0 .. (WIDTH - 1) -> BOOLEAN]] :
     Cardinality({c \in Coords : h[c[2]][c[1]]}) <= n}

SimFills == FillsUpTo(MaxCans)

\* the outcome of the draws of World(fill) that fills the cells of cans
FillOf(cans) ==
  [y \in 0 .. (HEIGHT - 1) |-> [x \in 0 .. (WIDTH - 1) |-> <<x, y>> \in cans]]

\* the worlds World(fill) comes to in main: an empty one, and ones with cans
\* under the robot, in the corner (0, 0) and in the cell south of the robot
MainFills ==
  {FillOf({}),
   FillOf({<<WIDTH \div 2, HEIGHT \div 2>>}),
   FillOf({<<WIDTH \div 2, HEIGHT \div 2>>, <<0, 0>>}),
   FillOf({<<WIDTH \div 2, HEIGHT \div 2>>,
           <<WIDTH \div 2, (HEIGHT \div 2) - 1>>}),
   FillOf({<<WIDTH \div 2, (HEIGHT \div 2) - 1>>})}

\* tryPickCan that takes the can and forgets to count it
tryPickCanNoCount(h, count, x, y) ==
  IF ~h[y][x]
    THEN [hasCan |-> h, canCount |-> count, ret |-> FALSE]
    ELSE [hasCan |-> [h EXCEPT ![y][x] = FALSE], canCount |-> count, ret |-> TRUE]

\* tryPickCan that returns what the cell holds after the pick
tryPickCanReturnsCell(h, count, x, y) ==
  IF ~h[y][x]
    THEN [hasCan |-> h, canCount |-> count, ret |-> FALSE]
    ELSE [hasCan |-> [h EXCEPT ![y][x] = FALSE], canCount |-> count - 1,
          ret |-> FALSE]

\* tryPickCan that counts the can and leaves it in its cell
tryPickCanKeepsCan(h, count, x, y) ==
  IF ~h[y][x]
    THEN [hasCan |-> h, canCount |-> count, ret |-> FALSE]
    ELSE [hasCan |-> h, canCount |-> count - 1, ret |-> TRUE]

\* World::tryPickCan on the world (h, count); ret is the value returned
tryPickCan(h, count, x, y) ==
  IF ~h[y][x]
    THEN [hasCan |-> h, canCount |-> count, ret |-> FALSE]
    ELSE [hasCan |-> [h EXCEPT ![y][x] = FALSE], canCount |-> count - 1,
          ret |-> TRUE]

\* getState whose test of x leaves out column 0
getStateStrictX(h, x, y) ==
  LET xValid == (0 < x /\ x < WIDTH)
      yValid == (0 <= y /\ y < HEIGHT)
  IN IF ~xValid \/ ~yValid THEN WALL
     ELSE IF h[y][x] THEN CAN ELSE EMPTY

\* World::getState
getState(h, x, y) ==
  LET xValid == (0 <= x /\ x < WIDTH)
      yValid == (0 <= y /\ y < HEIGHT)
  IN IF ~xValid \/ ~yValid THEN WALL
     ELSE IF h[y][x] THEN CAN ELSE EMPTY

\* World::getInput
getInput(h, x, y) ==
  InputOf(getState(h, x, y), getState(h, x, y + 1), getState(h, x + 1, y),
          getState(h, x, y - 1), getState(h, x - 1, y))

----------------------------------------------------------------------------
(* simulate *)

Actions == 0 .. (ACTION_COUNT - 1)

\* the condition of simulate's loop, without the test of canCount
simulateLoopCondStepsOnly == s < MAX_STEPS

\* the condition of simulate's loop with canCount >= 0 for canCount > 0
simulateLoopCondNonNegative == s < MAX_STEPS /\ canCount >= 0

\* the condition of simulate's loop: s < MAX_STEPS && world.canCount > 0
simulateLoopCond == s < MAX_STEPS /\ canCount > 0

\* the genome whose 243 rules are all STAY_PUT
AllStayPut == [c \in 0 .. (GENOME_LENGTH - 1) |-> STAY_PUT]

\* rule[index] of the genome argument.  In SpecSim the genome is arbitrary:
\* robotGenome holds the entries read so far, and an entry read for the first
\* time may hold any action; it holds that action from then on.
RuleAt(g, index) == IF index \in DOMAIN g THEN {g[index]} ELSE Actions

WithRule(g, index, a) ==
  [c \in (DOMAIN g) \cup {index} |-> IF c = index THEN a ELSE g[c]]

\* the switch of simulate: the displacement [dx, dy] of an action
Displacement(a) ==
  CASE a = MOVE_NORTH -> [dx |-> 0, dy |-> 1]
    [] a = MOVE_EAST -> [dx |-> 1, dy |-> 0]
    [] a = MOVE_SOUTH -> [dx |-> 0, dy |-> -1]
    [] a = MOVE_WEST -> [dx |-> -1, dy |-> 0]
    [] OTHER -> [dx |-> 0, dy |-> 0]

\* the wall check that adds the penalty and leaves the displacement as it is
WallCheckKeepsMove(x, y, d, sc) ==
  IF ~isCoordinateValid(x + d.dx, y + d.dy)
    THEN [score |-> sc + WALL_HIT_PTS, dx |-> d.dx, dy |-> d.dy]
    ELSE [score |-> sc, dx |-> d.dx, dy |-> d.dy]

\* lines 296-300: if the destination is invalid, score += WALL_HIT_PTS; dx = dy = 0
WallCheck(x, y, d, sc) ==
  IF ~isCoordinateValid(x + d.dx, y + d.dy)
    THEN [score |-> sc + WALL_HIT_PTS, dx |-> 0, dy |-> 0]
    ELSE [score |-> sc, dx |-> d.dx, dy |-> d.dy]

\* one iteration of simulate's loop; m is the outcome of movesDist, drawn only
\* when the action looked up is MOVE_RANDOM.  The assertions of getInput and
\* of the switch's default are guards: a failed assertion ends the program.
SimStep ==
  /\ pc = "simulate"
  /\ simulateLoopCond
  /\ isCoordinateValid(rx, ry)
  /\ LET index == InputToInt(getInput(hasCan, rx, ry))
     IN \E a \in RuleAt(robotGenome, index), m \in 0 .. (Len(MoveAction) - 1) :
          /\ a # MOVE_RANDOM => m = 0
          /\ a \in Actions
          /\ LET resolved == IF a = MOVE_RANDOM THEN MoveAction[m + 1] ELSE a
                 pick == IF resolved = TRY_PICK
                           THEN tryPickCan(hasCan, canCount, rx, ry)
                           ELSE [hasCan |-> hasCan, canCount |-> canCount,
                                 ret |-> FALSE]
                 pts == IF resolved = TRY_PICK
                          THEN (IF pick.ret THEN PICK_SUCCESS_PTS ELSE PICK_FAIL_PTS)
                          ELSE 0
                 w == WallCheck(rx, ry, Displacement(resolved), score + pts)
             IN /\ robotGenome' = WithRule(robotGenome, index, a)
                /\ action' = resolved
                /\ hasCan' = pick.hasCan
                /\ canCount' = pick.canCount
                /\ score' = w.score
                /\ rx' = rx + w.dx
                /\ ry' = ry + w.dy
                /\ s' = s + 1
                /\ zeroAt' = IF zeroAt = -1 /\ pick.canCount = 0 THEN s + 1 ELSE zeroAt
                /\ lastPick' = IF resolved = TRY_PICK
                                 THEN [x |-> rx, y |-> ry, ret |-> pick.ret]
                                 ELSE lastPick
  /\ UNCHANGED <<pc, MAX_STEPS, startCount, prevPick, lastState>>
  /\ UNCHANGED <<codeVars, genomeVars>>
  /\ UNCHANGED mainVars

\* simulate: the loop ends and the score is returned
SimReturn ==
  /\ pc = "simulate"
  /\ ~simulateLoopCond
  /\ pc' = "returned"
  /\ episodes' = Append(episodes, [genome |-> robotGenome,
                                   positive |-> score > 0,
                                   reward |-> IF score > 0 THEN score ELSE 0,
                                   cans |-> startCount])
  /\ UNCHANGED <<codeVars, genomeVars, worldVars, simVars>>
  /\ UNCHANGED <<robots, scores, nextGeneration, gen, i, maxPoints>>

----------------------------------------------------------------------------
(* The values of the variables a specification does not use *)

CodeIdle == code = -1 /\ input = <<>> /\ origin = <<>>

NoWorld == [y \in 0 .. (HEIGHT - 1) |-> [x \in 0 .. (WIDTH - 1) |-> FALSE]]

WorldIdle == hasCan = NoWorld /\ canCount = 0

SimIdle ==
  /\ robotGenome = <<>> /\ MAX_STEPS = 0 /\ rx = 0 /\ ry = 0 /\ score = 0
  /\ s = 0 /\ action = -1 /\ startCount = 0 /\ zeroAt = -1 /\ lastPick = <<>>
  /\ prevPick = <<>> /\ lastState = <<>>

\* the world and the locals of simulate go out of scope
EpisodeGone ==
  /\ hasCan' = NoWorld /\ canCount' = 0
  /\ robotGenome' = <<>> /\ MAX_STEPS' = 0 /\ rx' = 0 /\ ry' = 0 /\ score' = 0
  /\ s' = 0 /\ action' = -1 /\ startCount' = 0 /\ zeroAt' = -1
  /\ lastPick' = <<>> /\ prevPick' = <<>> /\ lastState' = <<>>

GenomeIdle ==
  /\ child = <<>> /\ childParentA = <<>> /\ childParentB = <<>>
  /\ mutateCount = 0 /\ mutatedIndices = {}

MainIdle ==
  /\ robots = <<>> /\ scores = <<>> /\ nextGeneration = <<>>
  /\ gen = 0 /\ i = 0 /\ maxPoints = 0
  /\ episodes = <<>>

----------------------------------------------------------------------------
(* SpecCode: the conversions of doSmokeTest, Input(i) and static_cast<int> *)

InitCode ==
  /\ \/ /\ pc = "int0"
        /\ code \in 0 .. (COMBINATIONS - 1)
        /\ input = <<>>
        /\ origin = code
     \/ /\ pc = "input0"
        /\ input \in Inputs
        /\ code = -1
        /\ origin = input
  /\ GenomeIdle /\ WorldIdle /\ SimIdle /\ MainIdle

\* Input(code), with its assertion
ConstructInput ==
  /\ pc \in {"int0", "input1"}
  /\ code < COMBINATIONS
  /\ input' = InputFromCode(code)
  /\ pc' = IF pc = "int0" THEN "int1" ELSE "input2"
  /\ UNCHANGED <<code, origin, genomeVars, worldVars, simVars, mainVars>>

\* static_cast<int>(input), with its assertion
ConvertToInt ==
  /\ pc \in {"int1", "input0"}
  /\ InputToInt(input) < COMBINATIONS
  /\ code' = InputToInt(input)
  /\ pc' = IF pc = "int1" THEN "int2" ELSE "input1"
  /\ UNCHANGED <<input, origin, genomeVars, worldVars, simVars, mainVars>>

NextCode == ConstructInput \/ ConvertToInt

SpecCode == InitCode /\ [][NextCode]_vars

----------------------------------------------------------------------------
(* SpecSim: a world, tryPickCan calls on it, and one episode of simulate *)

InitSim ==
  /\ pc = "world"
  /\ \E h \in SimFills : hasCan = World(h).hasCan /\ canCount = World(h).canCount
  /\ CodeIdle /\ GenomeIdle /\ SimIdle /\ MainIdle

\* world.tryPickCan(x, y) called from outside simulate
PickCall(x, y) ==
  /\ pc = "world"
  /\ isCoordinateValid(x, y)
  /\ LET pick == tryPickCan(hasCan, canCount, x, y)
     IN /\ hasCan' = pick.hasCan
        /\ canCount' = pick.canCount
        /\ lastPick' = [x |-> x, y |-> y, ret |-> pick.ret]
  /\ prevPick' = IF lastPick # <<>> /\ lastPick.x = x /\ lastPick.y = y
                   THEN <<lastPick.ret>>
                   ELSE <<>>
  /\ lastState' = <<>>
  /\ UNCHANGED <<pc, robotGenome, MAX_STEPS, rx, ry, score, s, action, startCount,
                 zeroAt>>
  /\ UNCHANGED <<codeVars, genomeVars, mainVars>>

\* world.getState(x, y) called from outside simulate, for any int x and y, on
\* the world as constructed (every world left by picks is a constructed one)
StateCall(x, y) ==
  /\ pc = "world"
  /\ lastPick = <<>>
  /\ lastState' = [x |-> x, y |-> y, ret |-> getState(hasCan, x, y)]
  /\ UNCHANGED <<pc, robotGenome, MAX_STEPS, rx, ry, score, s, action, startCount,
                 zeroAt, lastPick, prevPick>>
  /\ UNCHANGED <<codeVars, genomeVars, worldVars, mainVars>>

\* lines 264-266: simulate is entered with genome g, a world of count cans
\* and MAX_STEPS = m
SimEnter(g, count, m) ==
  /\ robotGenome' = g
  /\ MAX_STEPS' = m
  /\ rx' = WIDTH \div 2
  /\ ry' = HEIGHT \div 2
  /\ score' = 0
  /\ s' = 0
  /\ action' = -1
  /\ startCount' = count
  /\ zeroAt' = IF count = 0 THEN 0 ELSE -1
  /\ lastPick' = <<>>
  /\ prevPick' = <<>>
  /\ lastState' = <<>>
  /\ pc' = "simulate"

\* simulate(genome, world, m) for an arbitrary genome and a budget m
SimulateCall(m) ==
  /\ pc = "world"
  /\ SimEnter(<<>>, canCount, m)
  /\ UNCHANGED <<codeVars, genomeVars, worldVars, mainVars>>

\* simulate(genome, world, ScenarioSteps) for the all-STAY_PUT genome
StayPutCall ==
  /\ pc = "world"
  /\ SimEnter(AllStayPut, canCount, ScenarioSteps)
  /\ UNCHANGED <<codeVars, genomeVars, worldVars, mainVars>>

NextSim ==
  \/ \E x \in 0 .. (WIDTH - 1), y \in 0 .. (HEIGHT - 1) : PickCall(x, y)
  \/ \E x \in (0 - StateMargin) .. (WIDTH - 1 + StateMargin),
        y \in (0 - StateMargin) .. (HEIGHT - 1 + StateMargin) : StateCall(x, y)
  \/ \E m \in 0 .. MaxSteps : SimulateCall(m)
  \/ StayPutCall
  \/ SimStep
  \/ SimReturn

SpecSim == InitSim /\ [][NextSim]_vars

----------------------------------------------------------------------------
(* RobotGenome *)

Genomes == [0 .. (GENOME_LENGTH - 1) -> Actions]

\* RobotGenome(RandomArgs), given what uniformIntDistribution came to per rule
RobotGenomeRandom(drawn) == [c \in 0 .. (GENOME_LENGTH - 1) |-> drawn[c]]

\* the draws of RobotGenome(RandomArgs) the model takes: one action throughout
UniformDraws(actions) ==
  {[c \in 0 .. (GENOME_LENGTH - 1) |-> a] : a \in actions}

\* the crossover whose second copy reads parentB
CrossoverTailFromB(parentA, parentB, splitIndex) ==
  [c \in 0 .. (GENOME_LENGTH - 1) |->
     IF c < splitIndex THEN parentA[c] ELSE parentB[c]]

\* the crossover without its second copy: the tail keeps what std::fill wrote
CrossoverHeadOnly(parentA, parentB, splitIndex) ==
  [c \in 0 .. (GENOME_LENGTH - 1) |->
     IF c < splitIndex THEN parentA[c] ELSE ACTION_COUNT]

\* RobotGenome(const RobotGenome& parentA, const RobotGenome& parentB), given
\* the splitIndex drawn: the fill with Action::COUNT, then the two std::copy
Crossover(parentA, parentB, splitIndex) ==
  LET filled == [c \in 0 .. (GENOME_LENGTH - 1) |-> ACTION_COUNT]
      head == [c \in 0 .. (GENOME_LENGTH - 1) |->
                 IF c < splitIndex THEN parentA[c] ELSE filled[c]]
  IN [c \in 0 .. (GENOME_LENGTH - 1) |->
        IF splitIndex <= c THEN parentA[splitIndex + (c - splitIndex)]
        ELSE head[c]]

\* mutate that writes the drawn action to rule[mutatedIndex] and to the rule
\* after it
RECURSIVE mutateTwoRules(_, _)
mutateTwoRules(rule, draws) ==
  IF draws = <<>> THEN rule
  ELSE mutateTwoRules(
         [rule EXCEPT ![Head(draws)[1]] = Head(draws)[2],
                      ![(Head(draws)[1] + 1) % GENOME_LENGTH] = Head(draws)[2]],
         Tail(draws))

\* RobotGenome::mutate, given the draws <<mutatedIndex, action>> of its loop
RECURSIVE mutate(_, _)
mutate(rule, draws) ==
  IF draws = <<>> THEN rule
  ELSE mutate([rule EXCEPT ![Head(draws)[1]] = Head(draws)[2]], Tail(draws))

\* the outcomes of geneCount rounds of indexDist and actionDist, the index
\* taken from indices and the action from actions
MutationDraws(geneCount, indices, actions) ==
  [1 .. geneCount -> indices \X actions]

----------------------------------------------------------------------------
(* Fitness values: a float that is a quotient of two small integers *)

RECURSIVE GCD(_, _)
GCD(a, b) == IF b = 0 THEN a ELSE GCD(b, a % b)

Quotient(a, b) ==
  LET g == GCD(IF a < 0 THEN -a ELSE a, b)
  IN [num |-> a \div g, den |-> b \div g]

Zero == [num |-> 0, den |-> 1]

\* the fitness with the operands of the division swapped
FitnessSwapped(points, max) ==
  IF points > 0 THEN Quotient(max, points) ELSE Zero

\* the fitness without the floor at 0
FitnessNoFloor(points, max) ==
  IF max > 0 THEN Quotient(points, max) ELSE Zero

\* line 328: points > 0 ? points / maxPoints : 0
Fitness(points, max) ==
  IF points > 0 THEN Quotient(points, max) ELSE Zero

----------------------------------------------------------------------------
(* Spec: main *)

\* the genomes RobotGenome(RandomArgs) comes to in main
RandomGenomes ==
  {RobotGenomeRandom(d) : d \in UniformDraws({TRY_PICK, MOVE_SOUTH})}

\* the index indexDist is drawn from in main's mutate calls: the reading at
\* the start of an episode with a can under the robot and none next to it
MainMutatedIndices == {InputToInt(InputOf(CAN, EMPTY, EMPTY, EMPTY, EMPTY))}

\* the action actionDist is drawn from in main's mutate calls
MainMutatedActions == {TRY_PICK}

\* the split indices geneIndexDist is drawn from in main's crossovers
MainSplitIndices == {0, GENOME_LENGTH \div 2, GENOME_LENGTH - 1}

\* std::discrete_distribution over weights: an index is drawn with probability
\* weight / sum.  With a sum of 0 its precondition fails and any index may come.
Drawable(weights) ==
  IF \E k \in 1 .. Len(weights) : weights[k].num > 0
    THEN {k \in 0 .. (Len(weights) - 1) : weights[k + 1].num > 0}
    ELSE 0 .. (Len(weights) - 1)

\* lines 312-319 have run: N random robots, each with the score 1/N
Init ==
  /\ pc = "gen"
  /\ gen = 0
  /\ robots \in [1 .. N -> RandomGenomes]
  /\ scores = [k \in 1 .. N |-> Quotient(1, N)]
  /\ nextGeneration = <<>>
  /\ i = 0 /\ maxPoints = 0
  /\ episodes = <<>>
  /\ CodeIdle /\ GenomeIdle /\ WorldIdle /\ SimIdle

\* line 322 and lines 241-245: the loop goes on and breedNextGeneration begins
StartGeneration ==
  /\ pc = "gen"
  /\ gen < MaxGen
  /\ nextGeneration' = <<>>
  /\ pc' = "breed"
  /\ UNCHANGED <<robots, scores, gen, i, maxPoints, episodes>>
  /\ UNCHANGED <<codeVars, genomeVars, worldVars, simVars>>

\* the children pushed by one iteration of the loop of breedNextGeneration
BreedChild(a, b, splitIndex, draws) ==
  IF a = b THEN nextGeneration
  ELSE Append(nextGeneration,
              mutate(Crossover(robots[a + 1], robots[b + 1], splitIndex), draws))

\* lines 246-258: one iteration of the loop of breedNextGeneration
BreedIteration(a, b, splitIndex, draws) ==
  /\ pc = "breed"
  /\ Len(nextGeneration) < Len(robots)
  /\ a \in Drawable(scores)
  /\ b \in Drawable(scores)
  /\ a # b => Len(draws) < GENOME_LENGTH
  /\ nextGeneration' = BreedChild(a, b, splitIndex, draws)
  /\ UNCHANGED <<pc, robots, scores, gen, i, maxPoints, episodes>>
  /\ UNCHANGED <<codeVars, genomeVars, worldVars, simVars>>

\* lines 259 and 323: the loop of breedNextGeneration ends, robots is replaced
BreedReturn ==
  /\ pc = "breed"
  /\ ~(Len(nextGeneration) < Len(robots))
  /\ robots' = nextGeneration
  /\ nextGeneration' = <<>>
  /\ i' = 0
  /\ episodes' = <<>>
  /\ pc' = "eval"
  /\ UNCHANGED <<scores, gen, maxPoints>>
  /\ UNCHANGED <<codeVars, genomeVars, worldVars, simVars>>

\* lines 324-327: a fresh world for child i, and simulate is called on it
EvalChild(h) ==
  /\ pc = "eval"
  /\ i < Len(robots)
  /\ hasCan' = World(h).hasCan
  /\ canCount' = World(h).canCount
  /\ maxPoints' = World(h).canCount * PICK_SUCCESS_PTS
  /\ SimEnter(robots[i + 1], World(h).canCount, WIDTH * HEIGHT)
  /\ UNCHANGED <<robots, scores, nextGeneration, gen, i, episodes>>
  /\ UNCHANGED <<codeVars, genomeVars>>

\* the store of line 328 that writes the first score
StoreAtZero == [scores EXCEPT ![1] = Fitness(score, maxPoints)]

\* line 328: scores[i] = points > 0 ? points / maxPoints : 0
StoreAtI == [scores EXCEPT ![i + 1] = Fitness(score, maxPoints)]

\* line 328, the end of the loop's body and the ++i of line 324
StoreScore ==
  /\ pc = "returned"
  /\ scores' = StoreAtI
  /\ i' = i + 1
  /\ maxPoints' = 0
  /\ EpisodeGone
  /\ pc' = "eval"
  /\ UNCHANGED <<robots, nextGeneration, gen, episodes>>
  /\ UNCHANGED <<codeVars, genomeVars>>

\* lines 330-332: the evaluation loop ends, the generation is reported
EndGeneration ==
  /\ pc = "eval"
  /\ ~(i < Len(robots))
  /\ gen' = gen + 1
  /\ pc' = "gen"
  /\ UNCHANGED <<robots, scores, nextGeneration, i, maxPoints, episodes>>
  /\ UNCHANGED <<codeVars, genomeVars, worldVars, simVars>>

Next ==
  \/ StartGeneration
  \/ \E a \in 0 .. (N - 1), b \in 0 .. (N - 1),
        splitIndex \in MainSplitIndices,
        draws \in MutationDraws(mutationCount, MainMutatedIndices,
                                MainMutatedActions) :
        BreedIteration(a, b, splitIndex, draws)
  \/ BreedReturn
  \/ \E h \in MainFills : EvalChild(h)
  \/ SimStep
  \/ SimReturn
  \/ StoreScore
  \/ EndGeneration

Spec == Init /\ [][Next]_vars

----------------------------------------------------------------------------
(* SpecGenome: a genome, crossovers with it as parentA, and mutate calls *)

\* the genomes RobotGenome(RandomArgs) comes to in SpecGenome
GenomeSamples ==
  {RobotGenomeRandom(d) : d \in UniformDraws({STAY_PUT, TRY_PICK, MOVE_WEST})}

\* the indices indexDist is drawn from in SpecGenome
GenomeMutatedIndices == {0, GENOME_LENGTH \div 2, GENOME_LENGTH - 1}

\* the actions actionDist is drawn from in SpecGenome
GenomeMutatedActions == {STAY_PUT, MOVE_WEST}

\* mutate is called with geneCount in 0..MaxMutations in SpecGenome
MaxMutations == 2

InitGenome ==
  /\ pc = "genome"
  /\ child \in GenomeSamples
  /\ childParentA = <<>>
  /\ childParentB = <<>>
  /\ mutateCount = 0
  /\ mutatedIndices = {}
  /\ CodeIdle /\ WorldIdle /\ SimIdle /\ MainIdle

\* RobotGenome(child, b) with splitIndex drawn; the new genome is at hand
CrossoverCall(b, splitIndex) ==
  /\ pc \in {"genome", "crossed", "mutated"}
  /\ 0 <= splitIndex /\ splitIndex < GENOME_LENGTH
  /\ childParentA' = child
  /\ childParentB' = b
  /\ child' = Crossover(child, b, splitIndex)
  /\ pc' = "crossed"
  /\ mutateCount' = 0
  /\ mutatedIndices' = {}
  /\ UNCHANGED <<codeVars, worldVars, simVars, mainVars>>

\* child.mutate(Len(draws)), with its assertion
MutateCall(draws) ==
  /\ pc \in {"genome", "crossed", "mutated"}
  /\ Len(draws) < GENOME_LENGTH
  /\ mutateCount' = Len(draws)
  /\ mutatedIndices' = {draws[k][1] : k \in 1 .. Len(draws)}
  /\ child' = mutate(child, draws)
  /\ childParentA' = <<>>
  /\ childParentB' = <<>>
  /\ pc' = "mutated"
  /\ UNCHANGED <<codeVars, worldVars, simVars, mainVars>>

NextGenome ==
  \/ \E b \in GenomeSamples, splitIndex \in 0 .. (GENOME_LENGTH - 1) :
       CrossoverCall(b, splitIndex)
  \/ \E m \in 0 .. MaxMutations :
       \E draws \in MutationDraws(m, GenomeMutatedIndices,
                                   GenomeMutatedActions) :
         MutateCall(draws)

SpecGenome == InitGenome /\ [][NextGenome]_vars

----------------------------------------------------------------------------
(* The claims *)

\* C1 (SpecCode): converting a code 0..242 to an Input and back gives the code
\* again, and converting an Input [self, north, east, south, west] to its
\* code and back gives the Input again.
C1_RoundTrip ==
  /\ pc = "int2" => code = origin
  /\ pc = "input2" => input = origin

\* a reading with the can under the robot and a wall to the west went to its
\* code, 2 * 81 + 1, and came back
C1_Witness ==
  /\ pc = "input2"
  /\ code = 163
  /\ input = InputOf(CAN, EMPTY, EMPTY, EMPTY, WALL)

\* C2 (SpecSim): simulate runs at most MAX_STEPS iterations, and fewer than
\* MAX_STEPS exactly when canCount was 0 with fewer than MAX_STEPS iterations
\* done (at the call already, or after a pick).
C2_Termination ==
  /\ pc \in {"simulate", "returned"} => s <= MAX_STEPS
  /\ pc = "returned" =>
       ((s < MAX_STEPS) <=> (zeroAt # -1 /\ zeroAt < MAX_STEPS))

\* an episode with a budget of 3 ended after 1 iteration, its only can picked
C2_Witness ==
  /\ pc = "returned"
  /\ MAX_STEPS = 3
  /\ s = 1
  /\ startCount = 1
  /\ canCount = 0

\* C3 (SpecSim): canCount is the number of cells of hasCan that are true, in
\* the fresh world and after every tryPickCan call, simulate's included.
C3_CounterInvariant ==
  canCount = Cardinality({c \in Coords : hasCan[c[2]][c[1]]})

\* simulate picked the last can of a world
C3_Witness ==
  /\ pc = "simulate"
  /\ startCount = 1
  /\ canCount = 0
  /\ lastPick = [x |-> WIDTH \div 2, y |-> HEIGHT \div 2, ret |-> TRUE]

\* C4 (Spec): the fitness stored for an episode whose reward was <= 0 is
\* exactly 0, and no stored fitness is negative.
C4_FitnessFloor ==
  /\ \A k \in 1 .. Len(scores) : scores[k].num >= 0 /\ scores[k].den > 0
  /\ \A k \in 1 .. i :
       (k <= Len(episodes) /\ ~episodes[k].positive) => scores[k] = Zero

\* the first child's episode gave no positive reward and its fitness is stored
C4_Witness ==
  /\ pc = "eval"
  /\ i = 1
  /\ ~episodes[1].positive
  /\ scores[1] = Zero

\* C5 (Spec): every stored fitness is in [0, 1]; the reward of simulate never
\* exceeds PICK_SUCCESS_PTS times the cans the world began with, and a
\* positive reward, the only one divided, comes with maxPoints > 0.
C5_FitnessRange ==
  /\ \A k \in 1 .. Len(scores) :
       /\ scores[k].den > 0
       /\ 0 <= scores[k].num
       /\ scores[k].num <= scores[k].den
  /\ pc \in {"simulate", "returned"} => score <= PICK_SUCCESS_PTS * startCount
  /\ (pc = "returned" /\ score > 0) => maxPoints > 0

\* a child that picked one of two cans and failed 8 picks has the fitness 2/20
C5_Witness ==
  /\ pc = "eval"
  /\ i = 1
  /\ episodes[1].positive
  /\ episodes[1].reward = 2
  /\ episodes[1].cans = 2
  /\ scores[1] = [num |-> 1, den |-> 10]

\* C6 (SpecGenome): the genome a crossover builds equals parentA in all 243
\* entries, whatever the split index and parentB.
C6_CrossoverContent ==
  pc = "crossed" =>
    \A c \in 0 .. (GENOME_LENGTH - 1) : child[c] = childParentA[c]

\* a crossover of a mutated parentA with a parentB that differs from it
\* everywhere
C6_Witness ==
  /\ pc = "crossed"
  /\ childParentA[0] = STAY_PUT
  /\ childParentA[1] = TRY_PICK
  /\ childParentA[GENOME_LENGTH - 1] = STAY_PUT
  /\ \A c \in 0 .. (GENOME_LENGTH - 1) : childParentB[c] = MOVE_WEST
  /\ child = childParentA

\* C7 (Spec): the loop of breedNextGeneration finishes under a fair sampler:
\* whenever children are still missing, the sampler can draw two different
\* parents.
C7_BreedingCompletes ==
  (pc = "breed" /\ Len(nextGeneration) < Len(robots)) =>
    \E a \in Drawable(scores), b \in Drawable(scores) : a # b

\* C8 (SpecGenome): every entry of a genome is one of the 7 actions, after the
\* random construction, a crossover with any split index, and any mutate call.
C8_GenomeComplete ==
  /\ DOMAIN child = 0 .. (GENOME_LENGTH - 1)
  /\ \A c \in 0 .. (GENOME_LENGTH - 1) : child[c] \in Actions

\* a crossover of a genome that two mutations had changed
C8_Witness ==
  /\ pc = "crossed"
  /\ child[0] = MOVE_WEST
  /\ child[1] = TRY_PICK
  /\ child[GENOME_LENGTH - 1] = STAY_PUT

\* C9 (Spec): robots and scores always have N elements; when a generation
\* ends, scores[k] is the fitness of the k-th episode run, and that episode
\* was run with robots[k].
C9_PopulationInvariant ==
  /\ Len(robots) = N
  /\ Len(scores) = N
  /\ (pc = "gen" /\ gen >= 1) =>
       /\ Len(episodes) = N
       /\ \A k \in 1 .. N :
            /\ episodes[k].genome = robots[k]
            /\ scores[k] =
                 IF episodes[k].positive
                   THEN Quotient(episodes[k].reward,
                                 PICK_SUCCESS_PTS * episodes[k].cans)
                   ELSE Zero

\* the first generation has ended with two different robots and fitnesses
C9_Witness ==
  /\ pc = "gen"
  /\ gen = 1
  /\ robots[1] # robots[2]
  /\ scores[1] = [num |-> 1, den |-> 10]
  /\ scores[2] = Zero

C10_Dx(a) == IF a = MOVE_EAST THEN 1 ELSE IF a = MOVE_WEST THEN -1 ELSE 0
C10_Dy(a) == IF a = MOVE_NORTH THEN 1 ELSE IF a = MOVE_SOUTH THEN -1 ELSE 0
C10_IsMove(a) == a \in {MOVE_NORTH, MOVE_EAST, MOVE_SOUTH, MOVE_WEST}

\* C10 (SpecSim): an iteration whose resolved action is a move to an invalid
\* coordinate adds exactly WALL_HIT_PTS and leaves the robot where it is; any
\* other iteration moves the robot by the action's displacement and adds no
\* wall penalty (a pick adds its points, the rest nothing).
C10_WallCollision ==
  [][(pc = "simulate" /\ s' = s + 1) =>
       IF C10_IsMove(action')
          /\ ~isCoordinateValid(rx + C10_Dx(action'), ry + C10_Dy(action'))
         THEN score' = score + WALL_HIT_PTS /\ rx' = rx /\ ry' = ry
         ELSE /\ rx' = rx + C10_Dx(action')
              /\ ry' = ry + C10_Dy(action')
              /\ IF action' = TRY_PICK
                   THEN score' - score \in {PICK_SUCCESS_PTS, PICK_FAIL_PTS}
                   ELSE score' = score]_vars

\* the reading at the corner (0, 0), reached in two moves, was looked up as
\* MOVE_SOUTH: -5, and the robot is still there
C10_Witness ==
  /\ pc = "simulate"
  /\ s = 3
  /\ InputToInt(InputOf(EMPTY, EMPTY, EMPTY, WALL, WALL)) \in DOMAIN robotGenome
  /\ robotGenome[InputToInt(InputOf(EMPTY, EMPTY, EMPTY, WALL, WALL))] = MOVE_SOUTH
  /\ action = MOVE_SOUTH
  /\ rx = 0 /\ ry = 0
  /\ score = WALL_HIT_PTS

\* C11 as stated (SpecSim): with no can in the world, the all-STAY_PUT genome
\* and MAX_STEPS = ScenarioSteps, simulate returns 0 after ScenarioSteps
\* iterations of its loop.
C11_StayPutFullBudget ==
  (pc = "returned" /\ robotGenome = AllStayPut /\ MAX_STEPS = ScenarioSteps
     /\ startCount = 0) =>
    (score = 0 /\ s = ScenarioSteps)

\* C11 as amended (SpecSim): with no can in the world, the all-STAY_PUT genome
\* and MAX_STEPS = ScenarioSteps, simulate returns 0 without running any
\* iteration of its loop, the robot still at the centre; the loop never runs
\* while canCount is 0.
C11_StayPutNoIteration ==
  /\ (pc \in {"simulate", "returned"} /\ robotGenome = AllStayPut
        /\ MAX_STEPS = ScenarioSteps /\ startCount = 0) =>
       /\ score = 0
       /\ s = 0
       /\ rx = WIDTH \div 2 /\ ry = HEIGHT \div 2
       /\ canCount = 0

\* simulate has returned from the episode of the all-STAY_PUT genome in a
\* world without cans, with a budget of ScenarioSteps
C11_Witness ==
  /\ pc = "returned"
  /\ robotGenome = AllStayPut
  /\ MAX_STEPS = ScenarioSteps
  /\ startCount = 0
  /\ hasCan = NoWorld
  /\ score = 0
  /\ s = 0

\* C12 (SpecSim): a tryPickCan call on an occupied valid cell returns true,
\* empties that cell, takes 1 from canCount and changes no other cell; a call
\* on an unoccupied valid cell returns false and changes neither a cell nor
\* canCount; the call right after a successful one on the same coordinate
\* returns false, so that the two take exactly 1 from canCount.
C12_PickIdempotence ==
  [][(pc = "world" /\ pc' = "world" /\ lastPick' # <<>>
        /\ <<hasCan, canCount, lastPick, prevPick>>
             # <<hasCan', canCount', lastPick', prevPick'>>) =>
       LET x == lastPick'.x
           y == lastPick'.y
       IN /\ isCoordinateValid(x, y)
          /\ IF hasCan[y][x]
               THEN /\ lastPick'.ret
                    /\ canCount' = canCount - 1
                    /\ ~hasCan'[y][x]
                    /\ \A c \in Coords :
                         c # <<x, y>> => hasCan'[c[2]][c[1]] = hasCan[c[2]][c[1]]
               ELSE /\ ~lastPick'.ret
                    /\ canCount' = canCount
                    /\ hasCan' = hasCan
          /\ (lastPick # <<>> /\ lastPick.x = x /\ lastPick.y = y /\ lastPick.ret) =>
               (~lastPick'.ret /\ canCount' = canCount)]_vars

\* the can of the cell (0, 0) was picked and the next call, on the same cell,
\* returned false
C12_Witness ==
  /\ pc = "world"
  /\ lastPick = [x |-> 0, y |-> 0, ret |-> FALSE]
  /\ prevPick = <<TRUE>>
  /\ canCount = 0
  /\ hasCan = NoWorld

\* C13 (SpecSim): getState(x, y) returns WALL exactly when x < 0, x >= WIDTH,
\* y < 0 or y >= HEIGHT; for a coordinate on the grid it returns CAN when the
\* cell holds a can and EMPTY otherwise; the call leaves the world as it was.
C13_BoundsClosure ==
  [][(lastState' # <<>> /\ lastState' # lastState) =>
       LET x == lastState'.x
           y == lastState'.y
           outside == x < 0 \/ x >= WIDTH \/ y < 0 \/ y >= HEIGHT
       IN /\ (lastState'.ret = WALL) <=> outside
          /\ ~outside => lastState'.ret = (IF hasCan[y][x] THEN CAN ELSE EMPTY)
          /\ hasCan' = hasCan
          /\ canCount' = canCount]_vars

\* getState was called on the corner (0, 0) of a world whose only can is there
C13_Witness ==
  /\ pc = "world"
  /\ canCount = 1
  /\ hasCan[0][0]
  /\ lastState = [x |-> 0, y |-> 0, ret |-> CAN]

\* C14 (SpecSim): an iteration of simulate whose action is TRY_PICK leaves the
\* robot where it is; if the robot's cell held a can, the score grows by
\* PICK_SUCCESS_PTS, the cell is emptied and canCount falls by 1; if not, the
\* score changes by PICK_FAIL_PTS and the world stays as it was.
C14_TryPickStep ==
  [][(pc = "simulate" /\ s' = s + 1 /\ action' = TRY_PICK) =>
       /\ rx' = rx /\ ry' = ry
       /\ IF hasCan[ry][rx]
            THEN /\ score' = score + PICK_SUCCESS_PTS
                 /\ canCount' = canCount - 1
                 /\ hasCan' = [hasCan EXCEPT ![ry][rx] = FALSE]
            ELSE /\ score' = score + PICK_FAIL_PTS
                 /\ canCount' = canCount
                 /\ hasCan' = hasCan]_vars

\* C14, the scenario (SpecSim): with one can, at the start coordinate, its
\* reading looked up as TRY_PICK and MAX_STEPS = 1, simulate returns
\* PICK_SUCCESS_PTS and leaves canCount at 0.
C14_TryPickScenario ==
  (/\ pc = "returned"
   /\ MAX_STEPS = 1
   /\ startCount = 1
   /\ robotGenome =
        [c \in {InputToInt(InputOf(CAN, EMPTY, EMPTY, EMPTY, EMPTY))} |-> TRY_PICK])
    => (score = PICK_SUCCESS_PTS /\ canCount = 0 /\ s = 1)

\* C14 (SpecSim): the TRY_PICK step and the scenario together
C14_TryPick == C14_TryPickStep /\ []C14_TryPickScenario

\* the episode of the scenario has returned: the reading of a can under the
\* robot and nothing around it was looked up as TRY_PICK
C14_Witness ==
  /\ pc = "returned"
  /\ MAX_STEPS = 1
  /\ startCount = 1
  /\ robotGenome =
       [c \in {InputToInt(InputOf(CAN, EMPTY, EMPTY, EMPTY, EMPTY))} |-> TRY_PICK]
  /\ lastPick = [x |-> WIDTH \div 2, y |-> HEIGHT \div 2, ret |-> TRUE]
  /\ action = TRY_PICK
  /\ score = PICK_SUCCESS_PTS
  /\ canCount = 0

\* the rules in which the genomes g and h differ
C15_Changed(g, h) == {c \in 0 .. (GENOME_LENGTH - 1) : g[c] # h[c]}

\* C15 (SpecGenome): mutate(m) changes at most m rules, all of them at indices
\* it drew; a child made by a crossover and then mutate(m), as in
\* breedNextGeneration, differs from its parentA in at most m rules.
C15_MutationFrame ==
  [][pc' = "mutated" =>
       /\ mutateCount' < GENOME_LENGTH
       /\ Cardinality(C15_Changed(child, child')) <= mutateCount'
       /\ C15_Changed(child, child') \subseteq mutatedIndices'
       /\ pc = "crossed" =>
            Cardinality(C15_Changed(childParentA, child')) <= mutateCount']_vars

\* mutate(2) drew the last index twice and changed one rule of the genome
C15_Witness ==
  /\ pc = "mutated"
  /\ mutateCount = 2
  /\ mutatedIndices = {GENOME_LENGTH - 1}
  /\ child = [c \in 0 .. (GENOME_LENGTH - 1) |->
                IF c = GENOME_LENGTH - 1 THEN MOVE_WEST ELSE TRY_PICK]

\* C16 (SpecSim): all through simulate the robot is on the grid, having begun
\* at (WIDTH / 2, HEIGHT / 2); the code of the reading at its position is in
\* 0..242, the action of every iteration done is one of the six cases of the
\* switch, and every tryPickCan call of simulate was on a cell of the grid.
C16_StaysInBounds ==
  pc \in {"simulate", "returned"} =>
    /\ 0 <= rx /\ rx < WIDTH
    /\ 0 <= ry /\ ry < HEIGHT
    /\ s = 0 => (rx = WIDTH \div 2 /\ ry = HEIGHT \div 2)
    /\ InputToInt(getInput(hasCan, rx, ry)) \in 0 .. (COMBINATIONS - 1)
    /\ s > 0 => action \in {STAY_PUT, TRY_PICK, MOVE_NORTH, MOVE_EAST,
                             MOVE_SOUTH, MOVE_WEST}
    /\ lastPick # <<>> =>
         /\ 0 <= lastPick.x /\ lastPick.x < WIDTH
         /\ 0 <= lastPick.y /\ lastPick.y < HEIGHT

\* MOVE_RANDOM, looked up twice, came to MOVE_NORTH twice: the robot went to
\* the top row, ran into the wall there and was left in the row
C16_Witness ==
  /\ pc = "simulate"
  /\ s = 2
  /\ \A c \in DOMAIN robotGenome : robotGenome[c] = MOVE_RANDOM
  /\ action = MOVE_NORTH
  /\ rx = WIDTH \div 2
  /\ ry = HEIGHT - 1
  /\ score = WALL_HIT_PTS

====
